---- MODULE Spec2Model ----
(***************************************************************************)
(* A model of sage_auth: five request builders (authenticate, refresh,    *)
(* validate, invalidate, signout), each accumulating parameters through    *)
(* setters, then validating, serialising and POSTing them in request(),    *)
(* and mapping the HTTP response to a typed result or error.               *)
(*                                                                         *)
(* Strings that the code takes apart (URLs, endpoint strings, UUID texts,  *)
(* JSON bodies) are modelled by their structure, so that parsing, joining  *)
(* and (de)serialising are computed rather than assumed.                   *)
(***************************************************************************)
EXTENDS Integers, Sequences, FiniteSets, TLC

VARIABLES
    builders,   \* builder id -> the builder object (kind, params, server, endpoint)
    last,       \* the most recent call: its operation, argument and result, what it
                \* sent, the Uuid it generated and the response it received
    srv,        \* state of the remote server (tokens it holds valid, tokens it has issued)
    hist        \* history: builder id -> the calls made on that builder object since
                \* it was constructed, oldest first (only for the builders it follows)

vars == <<builders, last, srv, hist>>

-----------------------------------------------------------------------------
(* Option<T>: None is the empty tuple, Some(x) the one-element tuple. *)

None == <<>>

Some(x) == <<x>>

IsSome(o) == o /= None

Unwrap(o) == o[1]

(* Result<T, Error> and the variants of Error and ApiError. *)

Ok(v) == [tag |-> "Ok", val |-> v]

Err(e) == [tag |-> "Err", err |-> e]

IsOk(r) == r.tag = "Ok"

IsErr(r) == r.tag = "Err"

MissingField(name) == [kind |-> "MissingField", field |-> name]

ReqwestError(why) == [kind |-> "Reqwest", why |-> why]

UrlParseError(why) == [kind |-> "UrlParseError", why |-> why]

ApiKnown(variant, message) == [kind |-> "API", variant |-> variant, message |-> message]

ApiUnknown(error, message) ==
    [kind |-> "API", variant |-> "Unknown", error |-> error, message |-> message]

Unit == "()"

-----------------------------------------------------------------------------
(* The five builders. *)

Kinds == {"authenticate", "refresh", "validate", "invalidate", "signout"}

BuilderIds == {"b1"}

(* Values the caller passes to the setters. *)

Usernames == {"alice", "bob"}

Passwords == {"hunter2"}

AccessTokens == {"tokA", "tokB"}

AgentNames == {"Minecraft", "Forge"}

AgentVersions == {1, 2}

(* Uuid values.  "nil" is the all-zero UUID (not a version 4 one); the    *)
(* others are version 4.  Uuid::new_v4() draws from GeneratedUuids.       *)

CallerUuids == {"nil", "c1"}

GeneratedUuids == {"g1", "g2"}

Uuids == CallerUuids \cup GeneratedUuids

UuidVersion(u) == IF u = "nil" THEN 0 ELSE 4

-----------------------------------------------------------------------------
(* URL texts.  A string handed to Url::parse / Url::join is modelled by   *)
(* the pieces the parser splits it into: an optional scheme, an optional  *)
(* authority, whether the path starts with "/", and the path segments.    *)

UrlText(scheme, authority, abs, segs) ==
    [scheme |-> scheme, authority |-> authority, abs |-> abs, segs |-> segs]

\* "https://authserver.mojang.com"
DefaultServerText == UrlText(Some("https"), Some("authserver.mojang.com"), FALSE, <<>>)

\* "http://localhost:8080/api"
LocalApiText == UrlText(Some("http"), Some("localhost:8080"), TRUE, <<"api">>)

\* "not a url"
NoSchemeText == UrlText(None, None, FALSE, <<"not a url">>)

\* "http://[::1"
BadHostText == UrlText(Some("http"), Some("[::1"), FALSE, <<>>)

\* "mailto:admin"
MailtoText == UrlText(Some("mailto"), None, FALSE, <<"admin">>)

ServerTexts == {DefaultServerText, LocalApiText, NoSchemeText, BadHostText, MailtoText}

\* "/authenticate" and the other default endpoints
PathText(name) == UrlText(None, None, TRUE, <<name>>)

\* "login" (no leading slash)
RelativeText == UrlText(None, None, FALSE, <<"login">>)

\* "//[::1" : a scheme-relative reference with an unparsable host
BadEndpointText == UrlText(None, Some("[::1"), FALSE, <<>>)

EndpointTexts == {PathText("v2"), RelativeText, BadEndpointText}

ValidHost(h) == h \notin {"", "[::1"}

(* A parsed Url: scheme, optional host, path segments.  The url crate     *)
(* gives a special-scheme URL with an empty path the path "/", i.e. the   *)
(* single empty segment.                                                  *)

MkUrl(scheme, host, segs) == [scheme |-> scheme, host |-> host, segs |-> segs]

NormalizePath(segs) == IF segs = <<>> THEN <<"">> ELSE segs

UrlParse(text) ==
    IF text.scheme = None THEN Err(UrlParseError("RelativeUrlWithoutBase"))
    ELSE IF IsSome(text.authority) /\ ~ValidHost(Unwrap(text.authority))
         THEN Err(UrlParseError("InvalidHost"))
    ELSE IF IsSome(text.authority)
         THEN Ok(MkUrl(Unwrap(text.scheme), text.authority, NormalizePath(text.segs)))
    ELSE Ok(MkUrl(Unwrap(text.scheme), None, text.segs))


(* reqwest's IntoUrl for a string: Url::parse, then the URL must have a   *)
(* host.  Either failure is a reqwest::Error, which `?` turns into        *)
(* Error::Reqwest through From<ReqwestError>.                              *)

IntoUrl(text) ==
    LET parsed == UrlParse(text)
    IN  IF IsErr(parsed) THEN Err(ReqwestError("builder"))
        ELSE IF parsed.val.host = None THEN Err(ReqwestError("builder"))
        ELSE parsed

Front(segs) == SubSeq(segs, 1, Len(segs) - 1)

(* Url::join: resolve a reference against a base (RFC 3986 section 5.2).  *)
(* A reference with a scheme is parsed on its own; one with an authority  *)
(* keeps only the base's scheme; a path starting with "/" replaces the    *)
(* base's whole path; any other path replaces the base's last segment.    *)

\* Join that takes any authority for a host
JoinUnchecked(base, text) ==
    IF IsSome(text.scheme) THEN UrlParse(text)
    ELSE IF IsSome(text.authority)
         THEN Ok(MkUrl(base.scheme, text.authority, NormalizePath(text.segs)))
    ELSE IF text.abs THEN Ok(MkUrl(base.scheme, base.host, NormalizePath(text.segs)))
    ELSE IF text.segs = <<>> THEN Ok(base)
    ELSE Ok(MkUrl(base.scheme, base.host, Front(base.segs) \o text.segs))

Join(base, text) ==
    IF IsSome(text.scheme) THEN UrlParse(text)
    ELSE IF base.host = None
         THEN Err(UrlParseError("RelativeUrlWithCannotBeABaseBase"))
    ELSE IF IsSome(text.authority)
         THEN IF ValidHost(Unwrap(text.authority))
              THEN Ok(MkUrl(base.scheme, text.authority, NormalizePath(text.segs)))
              ELSE Err(UrlParseError("InvalidHost"))
    ELSE IF text.abs THEN Ok(MkUrl(base.scheme, base.host, NormalizePath(text.segs)))
    ELSE IF text.segs = <<>> THEN Ok(base)
    ELSE Ok(MkUrl(base.scheme, base.host, Front(base.segs) \o text.segs))

DEFAULT_SERVER == UrlParse(DefaultServerText).val

-----------------------------------------------------------------------------
(* Construction: XxxBuilder::new(). *)

DefaultEndpoint(kind) ==
    CASE kind = "authenticate" -> PathText("authenticate")
      [] kind = "refresh"      -> PathText("refresh")
      [] kind = "validate"     -> PathText("validate")
      [] kind = "invalidate"   -> PathText("invalidate")
      [] kind = "signout"      -> PathText("signout")

DefaultParams(kind) ==
    CASE kind = "authenticate" ->
            [username |-> None, password |-> None, client_token |-> None,
             request_user |-> FALSE, agent |-> [name |-> "Minecraft", version |-> 1]]
      [] kind = "refresh" ->
            [access_token |-> None, client_token |-> None, request_user |-> FALSE]
      [] kind \in {"validate", "invalidate"} ->
            [access_token |-> None, client_token |-> None]
      [] kind = "signout" ->
            [username |-> None, password |-> None]

NewBuilder(kind) ==
    [kind |-> kind, params |-> DefaultParams(kind),
     server |-> DEFAULT_SERVER, endpoint |-> DefaultEndpoint(kind)]

(* Which builders have which setters. *)

HasCredentials(kind) == kind \in {"authenticate", "signout"}

HasTokens(kind) == kind \in {"refresh", "validate", "invalidate"}

HasClientToken(kind) == kind \in {"authenticate", "refresh", "validate", "invalidate"}

HasRequestUser(kind) == kind \in {"authenticate", "refresh"}

(* What a call leaves behind for the caller to observe. *)

Call(b, op, arg, result, sent, gen) ==
    [b |-> b, op |-> op, arg |-> arg, result |-> result, sent |-> sent, gen |-> gen,
     resp |-> None]

(* The history of calls. A builder object starts with an empty history; a  *)
(* call is appended to the history of the builder it was made on. MaxCalls *)
(* bounds the number of calls followed on one builder object.              *)

MaxCalls == 4

NoHistory == [b \in {} |-> <<>>]

Record(h, call) ==
    IF call.b \notin DOMAIN h THEN h
    ELSE IF call.op = "new" THEN [h EXCEPT ![call.b] = <<>>]
    ELSE [h EXCEPT ![call.b] = Append(@, call)]

Logged(b) ==
    /\ (b \in DOMAIN hist) => Len(hist[b]) < MaxCalls
    /\ hist' = Record(hist, last')

\* SetParam keeping a value that was already written (first write wins)
SetParamOnce(b, field, value) ==
    IF field \in {"username", "password", "access_token", "client_token"}
          /\ builders[b].params[field] /= None
    THEN builders
    ELSE [builders EXCEPT ![b].params = [@ EXCEPT ![field] = value]]

SetParam(b, field, value) ==
    [builders EXCEPT ![b].params = [@ EXCEPT ![field] = value]]

-----------------------------------------------------------------------------
(* Setters.  Each stores its argument and returns the builder. *)

New(b, kind) ==
    /\ builders' = [builders EXCEPT ![b] = NewBuilder(kind)]
    /\ last' = Call(b, "new", kind, Ok(Unit), <<>>, None)
    /\ hist' = Record(hist, last')
    /\ UNCHANGED srv

Username(b, username) ==
    /\ HasCredentials(builders[b].kind)
    /\ builders' = SetParam(b, "username", Some(username))
    /\ last' = Call(b, "username", username, Ok(Unit), <<>>, None)
    /\ Logged(b)
    /\ UNCHANGED srv

Password(b, password) ==
    /\ HasCredentials(builders[b].kind)
    /\ builders' = SetParam(b, "password", Some(password))
    /\ last' = Call(b, "password", password, Ok(Unit), <<>>, None)
    /\ Logged(b)
    /\ UNCHANGED srv

AccessToken(b, access_token) ==
    /\ HasTokens(builders[b].kind)
    /\ builders' = SetParam(b, "access_token", Some(access_token))
    /\ last' = Call(b, "access_token", access_token, Ok(Unit), <<>>, None)
    /\ Logged(b)
    /\ UNCHANGED srv

ClientToken(b, client_token) ==
    /\ HasClientToken(builders[b].kind)
    /\ builders' = SetParam(b, "client_token", Some(client_token))
    /\ last' = Call(b, "client_token", client_token, Ok(Unit), <<>>, None)
    /\ Logged(b)
    /\ UNCHANGED srv

RequestUser(b) ==
    /\ HasRequestUser(builders[b].kind)
    /\ builders' = SetParam(b, "request_user", TRUE)
    /\ last' = Call(b, "request_user", Unit, Ok(Unit), <<>>, None)
    /\ Logged(b)
    /\ UNCHANGED srv

AgentName(b, agent_name) ==
    /\ builders[b].kind = "authenticate"
    /\ builders' = [builders EXCEPT ![b].params.agent.name = agent_name]
    /\ last' = Call(b, "agent_name", agent_name, Ok(Unit), <<>>, None)
    /\ Logged(b)
    /\ UNCHANGED srv

AgentVersion(b, agent_version) ==
    /\ builders[b].kind = "authenticate"
    /\ builders' = [builders EXCEPT ![b].params.agent.version = agent_version]
    /\ last' = Call(b, "agent_version", agent_version, Ok(Unit), <<>>, None)
    /\ Logged(b)
    /\ UNCHANGED srv

(* server(url): `self.server = server.into_url()?` assigns only when the  *)
(* conversion succeeds; otherwise the error is returned at once.          *)

ServerResult(text) ==
    LET url == IntoUrl(text)
    IN  IF IsErr(url) THEN url ELSE Ok(Unit)

\* Server with the base URL held in common by every builder
ServerShared(b, text) ==
    /\ builders' = IF IsOk(IntoUrl(text))
                   THEN [c \in DOMAIN builders |->
                            [builders[c] EXCEPT !.server = IntoUrl(text).val]]
                   ELSE builders
    /\ last' = Call(b, "server", text, ServerResult(text), <<>>, None)
    /\ Logged(b)
    /\ UNCHANGED srv

Server(b, text) ==
    /\ builders' = IF IsOk(IntoUrl(text))
                   THEN [builders EXCEPT ![b].server = IntoUrl(text).val]
                   ELSE builders
    /\ last' = Call(b, "server", text, ServerResult(text), <<>>, None)
    /\ Logged(b)
    /\ UNCHANGED srv

(* endpoint(path) stores the string as given; it cannot fail. *)

EndpointResult(text) == Ok(Unit)

Endpoint(b, text) ==
    /\ builders' = [builders EXCEPT ![b].endpoint = text]
    /\ last' = Call(b, "endpoint", text, EndpointResult(text), <<>>, None)
    /\ Logged(b)
    /\ UNCHANGED srv

-----------------------------------------------------------------------------
(* JSON values.  A string value records how it was rendered: plain text,  *)
(* or a Uuid in hyphenated or simple (unhyphenated) form.                 *)

JNull == [t |-> "null"]

JBool(x) == [t |-> "bool", b |-> x]

JNum(n) == [t |-> "number", n |-> n]

JStr(s) == [t |-> "string", fmt |-> "plain", v |-> s]

JUuid(u) == [t |-> "string", fmt |-> "hyphenated", v |-> u]

JUuidSimple(u) == [t |-> "string", fmt |-> "simple", v |-> u]

JArray == [t |-> "array"]

JOptStr(o) == IF o = None THEN JNull ELSE JStr(Unwrap(o))

JOptUuid(o) == IF o = None THEN JNull ELSE JUuid(Unwrap(o))

(* #[derive(Serialize)] #[serde(rename_all = "camelCase")] on the params. *)

Serialize(kind, params) ==
    CASE kind = "authenticate" ->
            [username |-> JOptStr(params.username),
             password |-> JOptStr(params.password),
             clientToken |-> JOptUuid(params.client_token),
             requestUser |-> JBool(params.request_user),
             agent |-> [name |-> JStr(params.agent.name),
                        version |-> JNum(params.agent.version)]]
      [] kind = "refresh" ->
            [accessToken |-> JOptStr(params.access_token),
             clientToken |-> JOptUuid(params.client_token),
             requestUser |-> JBool(params.request_user)]
      [] kind \in {"validate", "invalidate"} ->
            [accessToken |-> JOptStr(params.access_token),
             clientToken |-> JOptUuid(params.client_token)]
      [] kind = "signout" ->
            [username |-> JOptStr(params.username),
             password |-> JOptStr(params.password)]

-----------------------------------------------------------------------------
(* Response bodies: no bytes at all, bytes that are not JSON, or a JSON   *)
(* object.                                                                 *)

EmptyBody == [syntax |-> "empty"]

GarbageBody == [syntax |-> "garbage"]

ObjectBody(obj) == [syntax |-> "object", obj |-> obj]

HasField(obj, key) == key \in DOMAIN obj

IsStringField(obj, key) == HasField(obj, key) /\ obj[key].t = "string"

IsOptStringField(obj, key) == HasField(obj, key) => obj[key].t \in {"string", "null"}

IsUuidField(obj, key) ==
    IsStringField(obj, key) /\ obj[key].fmt \in {"hyphenated", "simple"}

DecodeError == Err(ReqwestError("decode"))

(* response.json::<ErrorMessage>(): `error` and `errorMessage` must be    *)
(* strings, `cause` may be absent, null or a string; other fields are     *)
(* ignored.                                                                *)

\* ParseErrorMessage reading the message from the key `error_message`
ParseErrorMessageSnakeCase(body) ==
    IF body.syntax /= "object" THEN DecodeError
    ELSE IF ~IsStringField(body.obj, "error") THEN DecodeError
    ELSE IF ~IsStringField(body.obj, "error_message") THEN DecodeError
    ELSE IF ~IsOptStringField(body.obj, "cause") THEN DecodeError
    ELSE Ok([error |-> body.obj.error.v, error_message |-> body.obj.error_message.v])

\* ParseErrorMessage with absent fields defaulting to the empty string
ParseErrorMessageDefaulting(body) ==
    IF body.syntax /= "object" THEN Ok([error |-> "", error_message |-> ""])
    ELSE Ok([error |-> IF IsStringField(body.obj, "error") THEN body.obj.error.v ELSE "",
             error_message |-> IF IsStringField(body.obj, "errorMessage")
                               THEN body.obj.errorMessage.v ELSE ""])

ParseErrorMessage(body) ==
    IF body.syntax /= "object" THEN DecodeError
    ELSE IF ~IsStringField(body.obj, "error") THEN DecodeError
    ELSE IF ~IsStringField(body.obj, "errorMessage") THEN DecodeError
    ELSE IF ~IsOptStringField(body.obj, "cause") THEN DecodeError
    ELSE Ok([error |-> body.obj.error.v, error_message |-> body.obj.errorMessage.v])

(* The if/else-if chain of Error::from_response. *)

\* Classify comparing without regard to case
ClassifyIgnoringCase(msg) ==
    IF msg.error \in {"ForbiddenOperationException", "forbiddenoperationexception"}
        THEN ApiKnown("ForbiddenOperationException", msg.error_message)
    ELSE IF msg.error = "IllegalArgumentException"
        THEN ApiKnown("IllegalArgumentException", msg.error_message)
    ELSE IF msg.error = "Method Not Allowed"
        THEN ApiKnown("MethodNotAllowed", msg.error_message)
    ELSE IF msg.error \in {"Not Found", "NOT FOUND"}
        THEN ApiKnown("NotFound", msg.error_message)
    ELSE IF msg.error = "Unsupported Media Type"
        THEN ApiKnown("UnsupportedMediaType", msg.error_message)
    ELSE ApiUnknown(msg.error, msg.error_message)

Classify(msg) ==
    IF msg.error = "ForbiddenOperationException"
        THEN ApiKnown("ForbiddenOperationException", msg.error_message)
    ELSE IF msg.error = "IllegalArgumentException"
        THEN ApiKnown("IllegalArgumentException", msg.error_message)
    ELSE IF msg.error = "Method Not Allowed"
        THEN ApiKnown("MethodNotAllowed", msg.error_message)
    ELSE IF msg.error = "Not Found"
        THEN ApiKnown("NotFound", msg.error_message)
    ELSE IF msg.error = "Unsupported Media Type"
        THEN ApiKnown("UnsupportedMediaType", msg.error_message)
    ELSE ApiUnknown(msg.error, msg.error_message)

FromResponse(body) ==
    LET msg == ParseErrorMessage(body)
    IN  IF IsErr(msg) THEN msg ELSE Err(Classify(msg.val))

(* response.json::<AuthenticateResponse>() / ::<RefreshResponse>().       *)
(* accessToken: String, clientToken: Uuid (either text form parses),      *)
(* availableProfiles: Vec (authenticate only, required).                   *)

\* ParseTokenResponse with the two token fields exchanged
ParseTokenResponseSwapped(kind, body) ==
    IF body.syntax /= "object" THEN DecodeError
    ELSE IF ~IsStringField(body.obj, "accessToken") THEN DecodeError
    ELSE IF ~IsUuidField(body.obj, "clientToken") THEN DecodeError
    ELSE IF kind = "authenticate" /\ ~HasField(body.obj, "availableProfiles") THEN DecodeError
    ELSE Ok([access_token |-> body.obj.clientToken.v,
             client_token |-> body.obj.accessToken.v])

ParseTokenResponse(kind, body) ==
    IF body.syntax /= "object" THEN DecodeError
    ELSE IF ~IsStringField(body.obj, "accessToken") THEN DecodeError
    ELSE IF ~IsUuidField(body.obj, "clientToken") THEN DecodeError
    ELSE IF kind = "authenticate" /\ ~HasField(body.obj, "availableProfiles") THEN DecodeError
    ELSE Ok([access_token |-> body.obj.accessToken.v,
             client_token |-> body.obj.clientToken.v])

StatusOK == 200

StatusNoContent == 204

StatusForbidden == 403

StatusNotFound == 404

(* The status each request() matches on. *)

\* SuccessStatus with 200 for every endpoint
SuccessStatusAlwaysOK(kind) == StatusOK

SuccessStatus(kind) ==
    IF kind \in {"authenticate", "refresh"} THEN StatusOK ELSE StatusNoContent

(* `match response.status() { ... }` *)

Interpret(kind, resp) ==
    IF resp.status = SuccessStatus(kind)
    THEN IF kind \in {"authenticate", "refresh"}
         THEN ParseTokenResponse(kind, resp.body)
         ELSE Ok(Unit)
    ELSE FromResponse(resp.body)

-----------------------------------------------------------------------------
(* The required-field checks at the top of each request(), in code order. *)

AuthenticateMissing(params) ==
    IF params.username = None THEN Some("username")
    ELSE IF params.password = None THEN Some("password")
    ELSE None

\* RefreshMissing without the client_token check
RefreshMissingAccessOnly(params) ==
    IF params.access_token = None THEN Some("access_token") ELSE None

RefreshMissing(params) ==
    IF params.access_token = None THEN Some("access_token")
    ELSE IF params.client_token = None THEN Some("client_token")
    ELSE None

ValidateMissing(params) ==
    IF params.access_token = None THEN Some("access_token")
    ELSE IF params.client_token = None THEN Some("client_token")
    ELSE None

InvalidateMissing(params) ==
    IF params.access_token = None THEN Some("access_token")
    ELSE IF params.client_token = None THEN Some("client_token")
    ELSE None

SignoutMissing(params) ==
    IF params.username = None THEN Some("username")
    ELSE IF params.password = None THEN Some("password")
    ELSE None

\* FirstMissing with the credential checks in the other order
FirstMissingPasswordFirst(kind, params) ==
    IF kind \in {"authenticate", "signout"}
    THEN IF params.password = None THEN Some("password")
         ELSE IF params.username = None THEN Some("username")
         ELSE None
    ELSE IF params.client_token = None THEN Some("client_token")
         ELSE IF params.access_token = None THEN Some("access_token")
         ELSE None

FirstMissing(kind, params) ==
    CASE kind = "authenticate" -> AuthenticateMissing(params)
      [] kind = "refresh"      -> RefreshMissing(params)
      [] kind = "validate"     -> ValidateMissing(params)
      [] kind = "invalidate"   -> InvalidateMissing(params)
      [] kind = "signout"      -> SignoutMissing(params)

(* Authenticate only: `if self.params.client_token.is_none() { ... =      *)
(* Some(Uuid::new_v4()) }`; `fresh` is what Uuid::new_v4() returns.        *)

\* EnsureClientToken that never generates
EnsureClientTokenNever(kind, params, fresh) == params

EnsureClientToken(kind, params, fresh) ==
    IF kind = "authenticate" /\ params.client_token = None
    THEN [params EXCEPT !.client_token = Some(fresh)]
    ELSE params

NewV4Called(kind, params) == kind = "authenticate" /\ params.client_token = None

(* client.post(url).json(&self.params).send(): the requests put on the    *)
(* wire by one request().                                                  *)

\* Sends with the request posted a second time
SendsTwice(url, body) == << [url |-> url, body |-> body], [url |-> url, body |-> body] >>

Sends(url, body) == << [url |-> url, body |-> body] >>

(* One request() on builder object bd, up to (and including) the send:    *)
(* the builder as it is left, the requests sent, and the early error, if  *)
(* any.                                                                    *)

\* Prepare with the generated client token sent but not kept in the builder
PrepareNotStoring(bd, fresh) ==
    LET missing == FirstMissing(bd.kind, bd.params)
        params  == EnsureClientToken(bd.kind, bd.params, fresh)
        gen     == IF NewV4Called(bd.kind, bd.params) THEN Some(fresh) ELSE None
        url     == Join(bd.server, bd.endpoint)
    IN  IF IsSome(missing)
        THEN [builder |-> bd, sent |-> <<>>, gen |-> None,
              early |-> Some(Err(MissingField(Unwrap(missing))))]
        ELSE IF IsErr(url)
        THEN [builder |-> bd, sent |-> <<>>, gen |-> gen, early |-> Some(url)]
        ELSE [builder |-> bd,
              sent |-> Sends(url.val, Serialize(bd.kind, params)), gen |-> gen,
              early |-> None]

\* Prepare with the client token generated and stored ahead of the field checks
PrepareGeneratingFirst(bd, fresh) ==
    LET missing == FirstMissing(bd.kind, bd.params)
        params  == EnsureClientToken(bd.kind, bd.params, fresh)
        gen     == IF NewV4Called(bd.kind, bd.params) THEN Some(fresh) ELSE None
        url     == Join(bd.server, bd.endpoint)
    IN  IF IsSome(missing)
        THEN [builder |-> [bd EXCEPT !.params = params], sent |-> <<>>, gen |-> gen,
              early |-> Some(Err(MissingField(Unwrap(missing))))]
        ELSE IF IsErr(url)
        THEN [builder |-> [bd EXCEPT !.params = params], sent |-> <<>>, gen |-> gen,
              early |-> Some(url)]
        ELSE [builder |-> [bd EXCEPT !.params = params],
              sent |-> Sends(url.val, Serialize(bd.kind, params)), gen |-> gen,
              early |-> None]

Prepare(bd, fresh) ==
    LET missing == FirstMissing(bd.kind, bd.params)
        params  == EnsureClientToken(bd.kind, bd.params, fresh)
        gen     == IF NewV4Called(bd.kind, bd.params) THEN Some(fresh) ELSE None
        url     == Join(bd.server, bd.endpoint)
    IN  IF IsSome(missing)
        THEN [builder |-> bd, sent |-> <<>>, gen |-> None,
              early |-> Some(Err(MissingField(Unwrap(missing))))]
        ELSE IF IsErr(url)
        THEN [builder |-> [bd EXCEPT !.params = params], sent |-> <<>>, gen |-> gen,
              early |-> Some(url)]
        ELSE [builder |-> [bd EXCEPT !.params = params],
              sent |-> Sends(url.val, Serialize(bd.kind, params)), gen |-> gen,
              early |-> None]

(* What the network hands back: a transport failure, or a status and body. *)

TransportFailure == [delivered |-> FALSE, status |-> 0, body |-> EmptyBody]

Response(status, body) == [delivered |-> TRUE, status |-> status, body |-> body]

Finish(kind, resp) ==
    IF ~resp.delivered THEN Err(ReqwestError("send")) ELSE Interpret(kind, resp)

Complete(b, pre, resp) ==
    /\ builders' = [builders EXCEPT ![b] = pre.builder]
    /\ last' = [Call(b, "request", Unit,
                     IF IsSome(pre.early) THEN Unwrap(pre.early)
                                          ELSE Finish(builders[b].kind, resp),
                     pre.sent, pre.gen)
                    EXCEPT !.resp = IF pre.sent = <<>> THEN None ELSE Some(resp)]
    /\ Logged(b)

-----------------------------------------------------------------------------
(* An arbitrary server: any status with any body, or no response at all.  *)

ErrorStrings ==
    {"ForbiddenOperationException", "IllegalArgumentException", "Method Not Allowed",
     "Not Found", "Unsupported Media Type",
     "forbiddenoperationexception", "NOT FOUND", "SomeNewError"}

Envelope(e, m) == ObjectBody([error |-> JStr(e), errorMessage |-> JStr(m)])

EnvelopeWithCause(e, m, c) ==
    ObjectBody([error |-> JStr(e), errorMessage |-> JStr(m), cause |-> c])

TokenBody(at, ct) ==
    ObjectBody([accessToken |-> JStr(at), clientToken |-> ct, availableProfiles |-> JArray])

RefreshBody(at, ct) == ObjectBody([accessToken |-> JStr(at), clientToken |-> ct])

EnvelopeBodies ==
    {Envelope(e, "Invalid credentials.") : e \in ErrorStrings}
    \cup {Envelope(e, "x") : e \in {"ForbiddenOperationException", "SomeNewError"}}
    \cup {EnvelopeWithCause("Not Found", "x", JStr("because")),
          EnvelopeWithCause("SomeNewError", "x", JNull)}

MalformedBodies ==
    {EmptyBody, GarbageBody,
     ObjectBody([errorMessage |-> JStr("x")]),
     ObjectBody([error |-> JStr("Not Found")]),
     ObjectBody([error |-> JNum(403), errorMessage |-> JStr("x")]),
     ObjectBody([error |-> JStr("Not Found"), error_message |-> JStr("x")]),
     EnvelopeWithCause("Not Found", "x", JNum(1))}

TokenBodies ==
    {TokenBody("tokA", JUuid("c1")), TokenBody("tokB", JUuidSimple("g1")),
     TokenBody("tokA", JStr("zzz")), RefreshBody("tokB", JUuid("c1"))}

Bodies == EnvelopeBodies \cup MalformedBodies \cup TokenBodies

Statuses == {StatusOK, StatusNoContent, StatusForbidden}

Responses == {TransportFailure} \cup {Response(st, body) : st \in Statuses, body \in Bodies}

(* The responses met in ordinary use. *)

CommonResponses ==
    {TransportFailure,
     Response(StatusOK, TokenBody("tokA", JUuid("c1"))),
     Response(StatusNoContent, EmptyBody),
     Response(StatusForbidden, Envelope("ForbiddenOperationException", "Invalid credentials.")),
     Response(StatusForbidden, GarbageBody)}

(* Uuid::new_v4() is drawn only when request() calls it, and a response   *)
(* exists only when something was sent.                                    *)

FreshChoices(bd) ==
    IF IsSome(FirstMissing(bd.kind, bd.params)) \/ ~NewV4Called(bd.kind, bd.params)
    THEN {"g1"}
    ELSE GeneratedUuids

Request(b, responses) ==
    \E fresh \in FreshChoices(builders[b]) :
        LET pre == Prepare(builders[b], fresh)
        IN  \E resp \in IF pre.sent = <<>> THEN {TransportFailure} ELSE responses :
                /\ Complete(b, pre, resp)
                /\ UNCHANGED srv

-----------------------------------------------------------------------------
(* A server that tracks token validity, as the integration test and the   *)
(* wire table describe it: authenticate issues a token pair, validate     *)
(* answers 204 for a valid pair, invalidate revokes it, refresh replaces   *)
(* it, signout revokes every token of the account; every refusal carries   *)
(* an error envelope.                                                      *)

MaxIssued == 2

Pair(at, ct) == [access |-> at, client |-> ct]

Account == [username |-> JStr("alice"), password |-> JStr("hunter2")]

Forbidden(m) == Response(StatusForbidden, Envelope("ForbiddenOperationException", m))

NotFound == Response(StatusNotFound, Envelope("Not Found", "No such resource."))

Reply(resp, s) == [resp |-> resp, srv |-> s]

GoodCredentials(body) ==
    body.username = Account.username /\ body.password = Account.password

SentPair(body) == Pair(body.accessToken.v, body.clientToken.v)

Unissued(s) ==
    IF Cardinality(s.issued) < MaxIssued THEN AccessTokens \ s.issued ELSE {}

ServerReplies(s, req) ==
    LET route == req.url.segs
        body  == req.body
    IN  CASE route = <<"authenticate">> ->
                IF GoodCredentials(body)
                THEN {Reply(Response(StatusOK, TokenBody(t, body.clientToken)),
                            [s EXCEPT !.valid = @ \cup {Pair(t, body.clientToken.v)},
                                      !.issued = @ \cup {t}]) : t \in Unissued(s)}
                ELSE {Reply(Forbidden("Invalid credentials."), s)}
          [] route = <<"refresh">> ->
                IF SentPair(body) \in s.valid
                THEN {Reply(Response(StatusOK, RefreshBody(t, body.clientToken)),
                            [s EXCEPT !.valid = (@ \ {SentPair(body)})
                                                  \cup {Pair(t, body.clientToken.v)},
                                      !.issued = @ \cup {t}]) : t \in Unissued(s)}
                ELSE {Reply(Forbidden("Invalid token."), s)}
          [] route = <<"validate">> ->
                IF SentPair(body) \in s.valid
                THEN {Reply(Response(StatusNoContent, EmptyBody), s)}
                ELSE {Reply(Forbidden("Invalid token."), s)}
          [] route = <<"invalidate">> ->
                {Reply(Response(StatusNoContent, EmptyBody),
                       [s EXCEPT !.valid = @ \ {SentPair(body)},
                                 !.revoked = @ \cup ({SentPair(body)} \cap s.valid)])}
          [] route = <<"signout">> ->
                IF GoodCredentials(body)
                THEN {Reply(Response(StatusNoContent, EmptyBody), [s EXCEPT !.valid = {}])}
                ELSE {Reply(Forbidden("Invalid credentials."), s)}
          [] OTHER -> {Reply(NotFound, s)}

TrackedRequest(b) ==
    \E fresh \in FreshChoices(builders[b]) :
        LET pre == Prepare(builders[b], fresh)
        IN  IF pre.sent = <<>>
            THEN Complete(b, pre, TransportFailure) /\ UNCHANGED srv
            ELSE \E reply \in ServerReplies(srv, pre.sent[1]) :
                    /\ Complete(b, pre, reply.resp)
                    /\ srv' = reply.srv

-----------------------------------------------------------------------------
NoServer == [valid |-> {}, revoked |-> {}, issued |-> {}]

Init ==
    /\ \E kind \in Kinds :
          /\ builders = [b \in BuilderIds |-> NewBuilder(kind)]
          /\ last = Call("b1", "new", kind, Ok(Unit), <<>>, None)
    /\ srv = NoServer
    /\ hist = NoHistory

SettersOver(b, clientTokens, agentNames, agentVersions, serverTexts, endpointTexts) ==
    \/ \E kind \in Kinds : New(b, kind)
    \/ \E v \in Usernames : Username(b, v)
    \/ \E v \in Passwords : Password(b, v)
    \/ \E v \in AccessTokens : AccessToken(b, v)
    \/ \E v \in clientTokens : ClientToken(b, v)
    \/ RequestUser(b)
    \/ \E v \in agentNames : AgentName(b, v)
    \/ \E v \in agentVersions : AgentVersion(b, v)
    \/ \E v \in serverTexts : Server(b, v)
    \/ \E v \in endpointTexts : Endpoint(b, v)

Setters(b) ==
    SettersOver(b, CallerUuids, AgentNames, AgentVersions, ServerTexts, EndpointTexts)

Next == \E b \in BuilderIds : Setters(b) \/ Request(b, CommonResponses)

Spec == Init /\ [][Next]_vars

(* The same program with fewer setter inputs, against every response. *)

FewSetters(b) ==
    SettersOver(b, {"c1"}, {"Forge"}, {1}, {LocalApiText, NoSchemeText}, {PathText("v2")})

NextWire == \E b \in BuilderIds : FewSetters(b) \/ Request(b, Responses)

SpecWire == Init /\ [][NextWire]_vars

(* The same program with fewer setter inputs, against the tracking server. *)

NextTracked == \E b \in BuilderIds : FewSetters(b) \/ TrackedRequest(b)

SpecTracked == Init /\ [][NextTracked]_vars

(* The same program with the calls on each builder object followed in hist. *)

InitHistory ==
    /\ \E kind \in Kinds :
          /\ builders = [b \in BuilderIds |-> NewBuilder(kind)]
          /\ last = Call("b1", "new", kind, Ok(Unit), <<>>, None)
    /\ srv = NoServer
    /\ hist = [b \in BuilderIds |-> <<>>]

HistorySetters(b) ==
    SettersOver(b, CallerUuids, {"Forge"}, {2}, {LocalApiText, NoSchemeText}, {PathText("v2")})

NextHistory == \E b \in BuilderIds : HistorySetters(b) \/ Request(b, CommonResponses)

SpecHistory == InitHistory /\ [][NextHistory]_vars

(* Two builder objects alive at once, their calls interleaved in any order; *)
(* the calls on b1 are followed in hist, those on b2 are without bound.     *)

PairIds == {"b1", "b2"}

PairUsernames(b) == IF b = "b1" THEN {"alice"} ELSE {"bob"}

PairServerTexts(b) == IF b = "b1" THEN {LocalApiText} ELSE {LocalApiText, NoSchemeText}

InitPair ==
    /\ builders = [b \in PairIds |-> NewBuilder("signout")]
    /\ last = Call("b2", "new", "signout", Ok(Unit), <<>>, None)
    /\ srv = NoServer
    /\ hist = [b \in {"b1"} |-> <<>>]

PairSetters(b) ==
    \/ New(b, "signout")
    \/ \E v \in PairUsernames(b) : Username(b, v)
    \/ \E v \in Passwords : Password(b, v)
    \/ \E v \in PairServerTexts(b) : Server(b, v)
    \/ \E v \in {PathText("v2")} : Endpoint(b, v)

PairResponses ==
    {Response(StatusNoContent, EmptyBody),
     Response(StatusForbidden, Envelope("ForbiddenOperationException", "Invalid credentials."))}

NextPair == \E b \in PairIds : PairSetters(b) \/ Request(b, PairResponses)

SpecPair == InitPair /\ [][NextPair]_vars

-----------------------------------------------------------------------------
(* Properties.  `last` describes the call just made; in a step that is    *)
(* not a stuttering step, last'.op = "request" holds exactly when the     *)
(* step is a request().                                                    *)

Requested == last.op = "request"

Requester == builders[last.b]

Delivered == Requested /\ IsSome(last.resp) /\ Unwrap(last.resp).delivered

Status == Unwrap(last.resp).status

Body == Unwrap(last.resp).body

IsError(kind) == IsErr(last.result) /\ last.result.err.kind = kind

(* The required fields of each builder, in the documented order. *)

DocRequired(kind) ==
    IF kind \in {"authenticate", "signout"}
    THEN <<"username", "password">>
    ELSE <<"access_token", "client_token">>

IsUnset(bd, field) == bd.params[field] = None

DocUnset(bd) ==
    LET req == DocRequired(bd.kind)
    IN  IF IsUnset(bd, req[1]) THEN <<req[1]>> \o (IF IsUnset(bd, req[2]) THEN <<req[2]>> ELSE <<>>)
        ELSE IF IsUnset(bd, req[2]) THEN <<req[2]>>
        ELSE <<>>

(* The documented success status of each endpoint. *)

DocSuccessStatus(kind) == IF kind \in {"authenticate", "refresh"} THEN 200 ELSE 204

(* A body that parses as the error envelope {error, errorMessage, cause?}. *)

IsEnvelope(body) ==
    /\ body.syntax = "object"
    /\ "error" \in DOMAIN body.obj /\ body.obj.error.t = "string"
    /\ "errorMessage" \in DOMAIN body.obj /\ body.obj.errorMessage.t = "string"
    /\ "cause" \in DOMAIN body.obj => body.obj.cause.t \in {"string", "null"}

(* The documented table of known error strings. *)

KnownErrors ==
    {"ForbiddenOperationException", "IllegalArgumentException", "Method Not Allowed",
     "Not Found", "Unsupported Media Type"}

Category(error) ==
    CASE error = "ForbiddenOperationException" -> "ForbiddenOperationException"
      [] error = "IllegalArgumentException"    -> "IllegalArgumentException"
      [] error = "Method Not Allowed"          -> "MethodNotAllowed"
      [] error = "Not Found"                   -> "NotFound"
      [] error = "Unsupported Media Type"      -> "UnsupportedMediaType"

\* C1: request() with a required field unset fails with MissingField naming the
\* first unset required field in the documented order, and sends nothing.
C1_MissingFieldFirst ==
    [][\A b \in BuilderIds :
          (last'.op = "request" /\ last'.b = b /\ DocUnset(builders[b]) /= <<>>)
          => /\ last'.result = Err(MissingField(DocUnset(builders[b])[1]))
             /\ last'.sent = <<>>]_vars

C1_Witness ==
    /\ Requested
    /\ Requester.kind = "signout"
    /\ IsSome(Requester.params.username)
    /\ last.result = Err(MissingField("password"))
    /\ last.sent = <<>>

\* C2: a non-success response whose body parses as an error envelope gives an API
\* error: an exact, case-sensitive match of `error` against the table selects the
\* category, which carries errorMessage; any other string gives Unknown with the
\* raw error and message.
C2_Classification ==
    (Delivered /\ Status /= DocSuccessStatus(Requester.kind) /\ IsEnvelope(Body))
    => LET error   == Body.obj.error.v
           message == Body.obj.errorMessage.v
       IN  /\ IsError("API")
           /\ error \in KnownErrors
                => last.result.err = [kind |-> "API", variant |-> Category(error),
                                      message |-> message]
           /\ error \notin KnownErrors
                => last.result.err = [kind |-> "API", variant |-> "Unknown",
                                      error |-> error, message |-> message]

C2_Witness ==
    /\ Delivered
    /\ IsEnvelope(Body)
    /\ Body.obj.error.v = "forbiddenoperationexception"
    /\ IsError("API")
    /\ last.result.err.variant = "Unknown"

\* C3: a delivered response yields a success result only when its status is the
\* endpoint's one success status (200 for authenticate/refresh, 204 for the others);
\* with any other status the result is the error the classifier makes of the body.
C3_OneSuccessStatus ==
    Delivered
    => /\ IsOk(last.result) => Status = DocSuccessStatus(Requester.kind)
       /\ Status /= DocSuccessStatus(Requester.kind)
            => /\ IsErr(last.result)
               /\ last.result.err.kind \in {"API", "Reqwest"}
               /\ last.result.err.kind = "API" <=> IsEnvelope(Body)

C3_Witness ==
    /\ Delivered
    /\ Requester.kind = "validate"
    /\ Status = 200
    /\ IsError("API")

TokenKinds == {"refresh", "validate", "invalidate"}

Hyphenated(u) == [t |-> "string", fmt |-> "hyphenated", v |-> u]

\* C4: an Authenticate request whose client_token is unset sends, as clientToken,
\* the hyphenated text of the version-4 Uuid generated by that call; one whose
\* client_token is set sends its value, which is the last one the caller set.
C4_ClientTokenOnWire ==
    [][\A b \in BuilderIds :
          /\ (last'.op = "request" /\ last'.b = b /\ builders[b].kind = "authenticate"
                /\ last'.sent /= <<>>)
             => LET wire == last'.sent[1].body.clientToken
                    held == builders[b].params.client_token
                IN  IF held = None
                    THEN /\ IsSome(last'.gen)
                         /\ UuidVersion(Unwrap(last'.gen)) = 4
                         /\ wire = Hyphenated(Unwrap(last'.gen))
                    ELSE /\ last'.gen = None
                         /\ wire = Hyphenated(Unwrap(held))
          /\ (last'.op = "client_token" /\ last'.b = b)
             => builders'[b].params.client_token = Some(last'.arg)
          /\ (last'.op \notin {"client_token", "request", "new"} /\ last'.b = b
                /\ builders[b].kind = "authenticate")
             => builders'[b].params.client_token = builders[b].params.client_token
      ]_vars

C4_Witness ==
    /\ Requested
    /\ Requester.kind = "authenticate"
    /\ last.sent /= <<>>
    /\ IsSome(last.gen)
    /\ last.sent[1].body.clientToken = Hyphenated(Unwrap(last.gen))

\* C5 (as stated): on Refresh, Validate and Invalidate, request() without a
\* client_token fails with MissingField("client_token").
C5_Original ==
    (Requested /\ Requester.kind \in TokenKinds /\ Requester.params.client_token = None)
    => last.result = Err(MissingField("client_token"))

\* C5 (amended): on Refresh, Validate and Invalidate, request() without a
\* client_token sends nothing and fails with MissingField, naming "client_token"
\* when access_token is set and "access_token" when it is not; no request() of
\* these builders generates a token or changes client_token, and what is sent
\* carries the client_token the builder held.
C5_NeverGenerated ==
    [][\A b \in BuilderIds :
          (last'.op = "request" /\ last'.b = b /\ builders[b].kind \in TokenKinds)
          => LET held == builders[b].params.client_token
             IN  /\ last'.gen = None
                 /\ builders'[b].params.client_token = held
                 /\ last'.sent /= <<>>
                      => /\ IsSome(held)
                         /\ last'.sent[1].body.clientToken = Hyphenated(Unwrap(held))
                 /\ held = None
                      => /\ last'.sent = <<>>
                         /\ last'.result =
                              Err(MissingField(IF builders[b].params.access_token = None
                                               THEN "access_token" ELSE "client_token"))
      ]_vars

C5_Witness ==
    /\ Requested
    /\ Requester.kind = "refresh"
    /\ IsSome(Requester.params.access_token)
    /\ Requester.params.client_token = None
    /\ last.result = Err(MissingField("client_token"))

\* C6 (as stated): every request() makes exactly one HTTP call.
C6_Original == Requested => Len(last.sent) = 1

\* C6 (amended): a request() that fails with MissingField or UrlParseError makes
\* no HTTP call; every other request(), whatever its outcome, makes exactly one.
C6_AtMostOneCall ==
    Requested
    => Len(last.sent) = IF IsError("MissingField") \/ IsError("UrlParseError") THEN 0 ELSE 1

C6_Witness ==
    /\ Requested
    /\ IsError("API")
    /\ Len(last.sent) = 1

\* C7: a non-success response whose body does not parse as the error envelope
\* gives the transport library's decode error, never an API error.
C7_MalformedEnvelope ==
    (Delivered /\ Status /= DocSuccessStatus(Requester.kind) /\ ~IsEnvelope(Body))
    => IsError("Reqwest")

C7_Witness ==
    /\ Delivered
    /\ Status = 403
    /\ Body = ObjectBody([errorMessage |-> JStr("x")])
    /\ IsError("Reqwest")

(* A text with an authority that is not a host; a text that is no URL.   *)

BadAuthority(text) == IsSome(text.authority) /\ Unwrap(text.authority) \in {"", "[::1"}

MalformedUrl(text) == text.scheme = None \/ BadAuthority(text)

\* C8 (as stated): a malformed base URL and a malformed endpoint override are
\* reported as UrlParseError by server(url) and endpoint(path) themselves, and
\* request() reports no URL error.
C8_Original ==
    /\ (last.op = "server" /\ MalformedUrl(last.arg)) => IsError("UrlParseError")
    /\ (last.op = "endpoint" /\ BadAuthority(last.arg)) => IsError("UrlParseError")
    /\ Requested => ~IsError("UrlParseError")

\* C8 (amended): server(url) rejects at once, with the transport library's error
\* (Error::Reqwest, not UrlParseError), a base URL that does not parse or has no
\* host, and accepts any other; endpoint(path) never fails and stores the path as
\* given; a malformed endpoint override is reported as UrlParseError by the
\* request() that gets past the required-field checks, which then sends nothing.
C8_UrlErrors ==
    /\ last.op = "server"
         => IF MalformedUrl(last.arg) \/ last.arg.authority = None
            THEN IsError("Reqwest")
            ELSE IsOk(last.result)
    /\ last.op = "endpoint" => (IsOk(last.result) /\ builders[last.b].endpoint = last.arg)
    /\ (Requested /\ DocUnset(Requester) = <<>>)
         => (IsError("UrlParseError") <=> BadAuthority(Requester.endpoint))
    /\ (Requested /\ IsError("UrlParseError")) => last.sent = <<>>

C8_Witness ==
    /\ Requested
    /\ Requester.endpoint = BadEndpointText
    /\ IsError("UrlParseError")
    /\ last.sent = <<>>

(* The token pair a Validate or Invalidate builder holds. *)

HeldPair(bd) == [access |-> Unwrap(bd.params.access_token),
                 client |-> Unwrap(bd.params.client_token)]

Reaches(b, kind) ==
    /\ last'.op = "request" /\ last'.b = b
    /\ builders[b].kind = kind
    /\ last'.sent /= <<>>
    /\ last'.sent[1].url.segs = <<kind>>

\* C9: against the token-tracking server, a Validate of a valid token pair
\* succeeds and leaves the server as it was (so a second Validate succeeds too);
\* an Invalidate of a valid pair succeeds and revokes it; a revoked pair is never
\* valid again; a Validate of a pair that is not valid fails with an API error.
C9_ValidateFollowsServer ==
    [][\A b \in BuilderIds :
          /\ Reaches(b, "validate")
             => /\ HeldPair(builders[b]) \in srv.valid
                     => (last'.result = Ok(Unit) /\ srv' = srv)
                /\ HeldPair(builders[b]) \notin srv.valid
                     => (IsErr(last'.result) /\ last'.result.err.kind = "API")
          /\ (Reaches(b, "invalidate") /\ HeldPair(builders[b]) \in srv.valid)
             => /\ last'.result = Ok(Unit)
                /\ HeldPair(builders[b]) \in srv'.revoked
          /\ srv'.revoked \cap srv'.valid = {}
          /\ srv.revoked \subseteq srv'.revoked
      ]_vars

C9_Witness ==
    /\ Requested
    /\ Requester.kind = "validate"
    /\ last.sent /= <<>>
    /\ HeldPair(Requester) \in srv.revoked
    /\ IsError("API")

(* The base URL followed by the endpoint path: the base's path, without   *)
(* its trailing slash, then the segments of the endpoint.                  *)

BasePath(segs) ==
    IF segs /= <<>> /\ segs[Len(segs)] = "" THEN SubSeq(segs, 1, Len(segs) - 1) ELSE segs

IsPath(text) == text.scheme = None /\ text.authority = None /\ text.abs

\* C10: the POST of request() goes to the builder's base URL, path included,
\* followed by its endpoint path.
C10_Target ==
    (Requested /\ last.sent /= <<>> /\ IsPath(Requester.endpoint))
    => last.sent[1].url = [scheme |-> Requester.server.scheme,
                           host |-> Requester.server.host,
                           segs |-> BasePath(Requester.server.segs)
                                      \o Requester.endpoint.segs]

C15_FailureLeavesBuilder ==
    [][\A b \in BuilderIds :
          /\ (last'.op = "request" /\ last'.b = b /\ IsErr(last'.result)
                /\ last'.result.err.kind = "MissingField")
             => /\ builders'[b] = builders[b]
                /\ last'.gen = None
                /\ last'.sent = <<>>
          /\ (last'.op = "server" /\ last'.b = b /\ IsErr(last'.result))
             => builders'[b] = builders[b]
          /\ (last'.op = "request" /\ last'.b = b
                /\ FirstMissing(builders[b].kind, builders[b].params) = None
                /\ IsOk(Join(builders[b].server, builders[b].endpoint)))
             => /\ last'.sent /= <<>>
                /\ last'.sent[1].url = Join(builders[b].server, builders[b].endpoint).val
      ]_vars

C15_Witness ==
    /\ Requested
    /\ Requester.kind = "authenticate"
    /\ last.result = Err(MissingField("password"))
    /\ Requester.params.username = Some("alice")
    /\ Requester.params.client_token = None
    /\ Requester.server = IntoUrl(LocalApiText).val
    /\ Requester.endpoint = PathText("v2")
    /\ last.gen = None

(* What the history of a builder says was written to it. *)

WritesOf(log, op) == {j \in 1..Len(log) : log[j].op = op /\ IsOk(log[j].result)}

Written(log, op) == WritesOf(log, op) /= {}

LastWritten(log, op, default) ==
    LET W == WritesOf(log, op)
    IN  IF W = {} THEN default ELSE log[CHOOSE j \in W : \A k \in W : k <= j].arg

ParamSetters ==
    {"username", "password", "access_token", "client_token", "request_user",
     "agent_name", "agent_version", "endpoint"}

NeverWritten(kind, log) ==
    LET req == DocRequired(kind)
    IN  IF ~Written(log, req[1]) THEN Some(req[1])
        ELSE IF ~Written(log, req[2]) THEN Some(req[2])
        ELSE None

WireString(log, op) == JStr(LastWritten(log, op, "?"))

DispatchedAsWritten(kind, log, req) ==
    /\ req.url = Join(IF Written(log, "server")
                      THEN IntoUrl(LastWritten(log, "server", "?")).val
                      ELSE DEFAULT_SERVER,
                      LastWritten(log, "endpoint", DefaultEndpoint(kind))).val
    /\ HasCredentials(kind) =>
          /\ req.body.username = WireString(log, "username")
          /\ req.body.password = WireString(log, "password")
    /\ HasTokens(kind) => req.body.accessToken = WireString(log, "access_token")
    /\ (HasClientToken(kind) /\ Written(log, "client_token")) =>
          req.body.clientToken = Hyphenated(LastWritten(log, "client_token", "?"))
    /\ HasRequestUser(kind) => req.body.requestUser = JBool(Written(log, "request_user"))
    /\ kind = "authenticate" =>
          /\ req.body.agent.name = JStr(LastWritten(log, "agent_name", "Minecraft"))
          /\ req.body.agent.version = JNum(LastWritten(log, "agent_version", 1))

\* C12: every parameter setter returns Ok whatever was or was not set before it;
\* a request() fails with MissingField(f) exactly when f is the first required
\* field that no earlier call on the builder wrote; and a request() that
\* dispatches sends, for each parameter, the value of the last write to it (the
\* default where there was none), to the join of the last base URL and the last
\* endpoint written.
C12_LastWriteWins ==
    \A b \in DOMAIN hist : \A i \in 1..Len(hist[b]) :
        LET e    == hist[b][i]
            log  == SubSeq(hist[b], 1, i - 1)
            kind == builders[b].kind
        IN  /\ e.op \in ParamSetters => e.result = Ok(Unit)
            /\ e.op = "request" =>
                  /\ \A f \in {"username", "password", "access_token", "client_token"} :
                        e.result = Err(MissingField(f)) <=> NeverWritten(kind, log) = Some(f)
                  /\ NeverWritten(kind, log) /= None => e.sent = <<>>
                  /\ e.sent /= <<>> => DispatchedAsWritten(kind, log, e.sent[1])

C12_Witness ==
    /\ "b1" \in DOMAIN hist
    /\ Len(hist["b1"]) = 4
    /\ hist["b1"][1].op = "password"
    /\ hist["b1"][2].op = "username" /\ hist["b1"][2].arg = "alice"
    /\ hist["b1"][3].op = "username" /\ hist["b1"][3].arg = "bob"
    /\ hist["b1"][4].op = "request"
    /\ hist["b1"][4].sent /= <<>>
    /\ hist["b1"][4].sent[1].body.username = JStr("bob")

(* The requests in a history that generated a client token. *)

Generations(log) == {i \in 1..Len(log) : log[i].op = "request" /\ IsSome(log[i].gen)}

NoClientTokenCall(log, i, j) == \A k \in (i + 1)..(j - 1) : log[k].op /= "client_token"

\* C14: over the calls made on one builder object, at most one request()
\* generates a client token, and only on an Authenticate builder; every later
\* request() with no client_token() call in between generates nothing and, if
\* it dispatches, sends that same token; and the builder holds the generated
\* token until a client_token() call replaces it.
C14_GeneratedOnce ==
    \A b \in DOMAIN hist :
        LET log == hist[b]
        IN  /\ Cardinality(Generations(log)) <= 1
            /\ Generations(log) /= {} => builders[b].kind = "authenticate"
            /\ \A i \in Generations(log) :
                  /\ UuidVersion(Unwrap(log[i].gen)) = 4
                  /\ \A j \in (i + 1)..Len(log) :
                        (log[j].op = "request" /\ NoClientTokenCall(log, i, j))
                        => /\ log[j].gen = None
                           /\ log[j].sent /= <<>> =>
                                 log[j].sent[1].body.clientToken = Hyphenated(Unwrap(log[i].gen))
                  /\ NoClientTokenCall(log, i, Len(log) + 1)
                        => builders[b].params.client_token = log[i].gen

C14_Witness ==
    /\ "b1" \in DOMAIN hist
    /\ Len(hist["b1"]) = 4
    /\ hist["b1"][3].op = "request"
    /\ hist["b1"][3].gen = Some("g2")
    /\ hist["b1"][3].sent /= <<>>
    /\ hist["b1"][3].sent[1].body.clientToken = Hyphenated("g2")
    /\ hist["b1"][4].op = "request"
    /\ hist["b1"][4].gen = None
    /\ hist["b1"][4].sent /= <<>>
    /\ hist["b1"][4].sent[1].body.clientToken = Hyphenated("g2")

\* C13: with two builder objects and their calls interleaved in any order, a
\* call on one builder leaves the other builder as it was; and what a builder
\* sends (target URL and payload) and whether its request() fails validation
\* are what its own calls alone determine: it dispatches the last values its
\* own setters wrote, and fails with MissingField(f) exactly when f is the
\* first required field none of its own calls wrote.
C13_NoSharedState ==
    /\ [](\A b \in DOMAIN hist : \A i \in 1..Len(hist[b]) :
            LET e   == hist[b][i]
                own == SubSeq(hist[b], 1, i - 1)
            IN  e.op = "request" =>
                  /\ (IsErr(e.result) /\ e.result.err.kind = "MissingField")
                        <=> NeverWritten(builders[b].kind, own) /= None
                  /\ e.sent /= <<>> => DispatchedAsWritten(builders[b].kind, own, e.sent[1]))
    /\ [][\A b \in PairIds :
            last'.b /= b =>
               /\ builders'[b] = builders[b]
               /\ b \in DOMAIN hist => hist'[b] = hist[b]]_vars

C13_Witness ==
    /\ last.b = "b1"
    /\ Requested
    /\ builders["b1"].kind = "signout" /\ builders["b2"].kind = "signout"
    /\ last.sent /= <<>>
    /\ last.sent[1].url = Join(DEFAULT_SERVER, PathText("signout")).val
    /\ last.sent[1].body.username = JStr("alice")
    /\ builders["b2"].server = IntoUrl(LocalApiText).val
    /\ builders["b2"].endpoint = PathText("v2")
    /\ builders["b2"].params.username = Some("bob")

====
